---- MODULE Spec2Model ----
(***************************************************************************)
(* Model of pyentropy's finite-alphabet maximum-entropy solver             *)
(* (pyentropy/pyentropy/maxent.py, class AmariSolve) together with the     *)
(* base conversion helpers of pyentropy/utils.py it relies on.             *)
(*                                                                         *)
(* Conventions                                                             *)
(*  - numpy arrays are sequences; code index i is sequence index i+1.      *)
(*  - the sparse matrix A is a sequence of rows, each row the set of the   *)
(*    (0-based) column indices holding a 1.                                *)
(*  - real numbers are exact rationals <<num, den>> (den > 0, reduced).    *)
(*  - a theta vector is carried entry-wise as E = exp(theta), a positive   *)
(*    rational: A^T.theta becomes a product of E entries, np.exp and       *)
(*    np.log become the change of representation, theta = 0 is E = 1.      *)
(***************************************************************************)
EXTENDS Integers, Sequences, FiniteSets, TLC

\* ------------------------------------------------------------------ bounds
\* largest n and m the program constructs with
MaxN == 3
MaxM == 3
\* largest number m^n of joint states of an instance whose methods are called
MaxStates == 9
\* number of argument vectors of each kind, and of points fsolve may end on
NumSeeds == 2
\* largest n and m whose artifact names are compared
MaxKey == 12
\* processes constructing concurrently
NumProcs == 2
\* longest array handed to a conversion utility
MaxLen == 2
\* conversions applied in a row to one array
MaxCalls == 2

\* --------------------------------------------------------- program constant
HAS_UMFPACK == FALSE

\* ------------------------------------------------------- integer arithmetic
RECURSIVE Pow(_, _)
Pow(b, e) == IF e <= 0 THEN 1 ELSE b * Pow(b, e - 1)

RECURSIVE GCD(_, _)
GCD(a, b) == IF b = 0 THEN a ELSE GCD(b, a % b)

Abs(a) == IF a < 0 THEN -a ELSE a

RECURSIVE CombStep(_, _, _, _)
CombStep(n, j, i, acc) ==
    IF i > j THEN acc ELSE CombStep(n, j, i + 1, (acc * (n - j + i)) \div i)

\* scipy comb(N, k, exact=1): 0 when k > N, else the exact binomial
comb(N, j) == IF (j > N) \/ (N < 0) \/ (j < 0) THEN 0 ELSE CombStep(N, j, 1, 1)

\* ---------------------------------------------------------------- rationals
Rat(a, b) ==
    LET s == IF b < 0 THEN -1 ELSE 1
        g == GCD(Abs(a), Abs(b))
    IN  <<(s * a) \div g, (s * b) \div g>>

RZero == <<0, 1>>
ROne == <<1, 1>>
RAdd(x, y) == Rat(x[1] * y[2] + y[1] * x[2], x[2] * y[2])
RSub(x, y) == Rat(x[1] * y[2] - y[1] * x[2], x[2] * y[2])
RMul(x, y) == Rat(x[1] * y[1], x[2] * y[2])
RDiv(x, y) == Rat(x[1] * y[2], x[2] * y[1])

RECURSIVE RSum(_)
RSum(v) == IF Len(v) = 0 THEN RZero ELSE RAdd(v[1], RSum(Tail(v)))

\* the elements of a set of naturals in increasing order
RECURSIVE SortedSeq(_)
SortedSeq(S) ==
    IF S = {} THEN <<>>
    ELSE LET lo == CHOOSE x \in S : \A y \in S : x <= y
         IN  <<lo>> \o SortedSeq(S \ {lo})

\* ------------------------------------------------------- utils.py helpers
\* dec2base: row t is x[t] in base b over `digits` digits, most significant
\* first: floor(remainder(x, b*power) / power), power = b^(digits-1-j)
dec2base(x, b, digits) ==
    [t \in 1..Len(x) |->
        [j \in 1..digits |->
            LET power == Pow(b, digits - j)
            IN  (x[t] % (b * power)) \div power]]

\* base2dec: dot(x, b^[cols-1 .. 0]) for every row of x
RECURSIVE DotPow(_, _)
DotPow(w, b) ==
    IF Len(w) = 0 THEN 0
    ELSE w[1] * Pow(b, Len(w) - 1) + DotPow(Tail(w), b)

base2dec(x, b) == [t \in 1..Len(x) |-> DotPow(x[t], b)]

\* inscol with the column always appended on the right
inscol_append(x, h, n) == [t \in 1..Len(x) |-> x[t] \o <<h[t]>>]

\* inscol: insert column h before column n of x (n is 0-based)
inscol(x, h, n) ==
    [t \in 1..Len(x) |->
        LET xs1 == Len(x[t])
        IN  IF n = 0 THEN <<h[t]>> \o x[t]
            ELSE IF n = xs1 THEN x[t] \o <<h[t]>>
            ELSE SubSeq(x[t], 1, n) \o <<h[t]>> \o SubSeq(x[t], n + 1, xs1)]

\* ------------------------------------------- AmariSolve._calculate_orders
\* loop body of `for ordi in xrange(n+1)`; st carries order_idx,
\* order_length and row_counter
\* the loop with order_length[ordi] = comb(n, ordi+1) * (m-1)^ordi
RECURSIVE CalcOrdersLoop_pow(_, _, _, _)
CalcOrdersLoop_pow(ordi, n, m, st) ==
    IF ordi > n THEN st
    ELSE LET len == comb(n, ordi + 1) * Pow(m - 1, ordi)
         IN  CalcOrdersLoop_pow(ordi + 1, n, m,
                [order_idx    |-> [st.order_idx EXCEPT ![ordi + 1] = st.row_counter],
                 order_length |-> [st.order_length EXCEPT ![ordi + 1] = len],
                 row_counter  |-> st.row_counter + len])

RECURSIVE CalcOrdersLoop(_, _, _, _)
CalcOrdersLoop(ordi, n, m, st) ==
    IF ordi > n THEN st
    ELSE LET len == comb(n, ordi + 1) * Pow(m - 1, ordi + 1)
         IN  CalcOrdersLoop(ordi + 1, n, m,
                [order_idx    |-> [st.order_idx EXCEPT ![ordi + 1] = st.row_counter],
                 order_length |-> [st.order_length EXCEPT ![ordi + 1] = len],
                 row_counter  |-> st.row_counter + len])

\* the sum with the powers of m taken in ascending order, m^i
RECURSIVE NnzSum_ascending(_, _, _, _)
NnzSum_ascending(i, k, n_m, order_length) ==
    IF (i >= k) \/ (i >= n_m[1]) THEN 0
    ELSE Pow(n_m[2], i) * order_length[i + 1]
         + NnzSum_ascending(i + 1, k, n_m, order_length)

\* sum over i < k of m^(n-1-i) * order_length[i]
RECURSIVE NnzSum(_, _, _, _)
NnzSum(i, k, n_m, order_length) ==
    IF (i >= k) \/ (i >= n_m[1]) THEN 0
    ELSE Pow(n_m[2], n_m[1] - 1 - i) * order_length[i + 1]
         + NnzSum(i + 1, k, n_m, order_length)

\* _calculate_orders without the final order_idx[n+1] = dim+1
calculate_orders_noend(k, n, m, dim) ==
    LET st0 == [order_idx    |-> [i \in 1..(n + 2) |-> 0],
                order_length |-> [i \in 1..(n + 1) |-> 0],
                row_counter  |-> 0]
        st1 == CalcOrdersLoop(0, n, m, st0)
    IN  [order_idx    |-> st1.order_idx,
         order_length |-> st1.order_length,
         row_counter  |-> st1.row_counter,
         Annz         |-> NnzSum(0, k, <<n, m>>, st1.order_length)]

calculate_orders(k, n, m, dim) ==
    LET st0 == [order_idx    |-> [i \in 1..(n + 2) |-> 0],
                order_length |-> [i \in 1..(n + 1) |-> 0],
                row_counter  |-> 0]
        st1 == CalcOrdersLoop(0, n, m, st0)
    IN  [order_idx    |-> [st1.order_idx EXCEPT ![n + 2] = dim + 1],
         order_length |-> st1.order_length,
         row_counter  |-> st1.row_counter,
         Annz         |-> NnzSum(0, k, <<n, m>>, st1.order_length)]

\* ------------------------------------------------- AmariSolve._recloop
\* columns written for one row once depth = order
RECURSIVE InsertAll(_, _, _, _)
InsertAll(temp, alpha_new, pos_new, coli) ==
    IF coli > Len(alpha_new) THEN temp
    ELSE InsertAll(inscol(temp, [t \in 1..Len(temp) |-> alpha_new[coli]],
                          pos_new[coli]),
                   alpha_new, pos_new, coli + 1)

RowCols(order, alpha_new, pos_new, n, m, terms) ==
    IF order = n
    THEN <<base2dec(<<alpha_new>>, m)[1] - 1>>
    ELSE LET temp == InsertAll(terms, alpha_new, pos_new, 1)
             dec  == base2dec(temp, m)
         IN  [t \in 1..Len(dec) |-> dec[t] - 1]

\* The rows _recloop inserts, in insertion order; each entry records the
\* locals pos_new and alpha_new of the insertion and the columns set to 1.
RECURSIVE recloop(_, _, _, _, _, _, _)
RECURSIVE recloop_ai(_, _, _, _, _, _, _, _)
RECURSIVE recloop_pi(_, _, _, _, _, _, _, _, _)
\* the alphabet loop running from m-1 down to 1
recloop_ai_desc(ai, order, depth, alpha, pos, n, m, terms) ==
    IF ai >= m THEN <<>>
    ELSE LET alpha_new == Append(alpha, m - ai)
             pos_start == IF Len(pos) = 0 THEN 0 ELSE pos[Len(pos)] + 1
         IN  recloop_pi(pos_start, order, depth, alpha_new, pos, n, m, terms,
                        n - (order - depth))
             \o recloop_ai(ai + 1, order, depth, alpha, pos, n, m, terms)

recloop_pi(pi, order, depth, alpha_new, pos, n, m, terms, stop) ==
    IF pi >= stop THEN <<>>
    ELSE LET pos_new == Append(pos, pi)
             here == IF depth = order
                     THEN <<[pos   |-> pos_new,
                             alpha |-> alpha_new,
                             cols  |-> RowCols(order, alpha_new, pos_new,
                                               n, m, terms)]>>
                     ELSE recloop(order, depth + 1, alpha_new, pos_new,
                                  n, m, terms)
         IN  here \o recloop_pi(pi + 1, order, depth, alpha_new, pos,
                                n, m, terms, stop)

recloop_ai(ai, order, depth, alpha, pos, n, m, terms) ==
    IF ai >= m THEN <<>>
    ELSE LET alpha_new == Append(alpha, ai)
             pos_start == IF Len(pos) = 0 THEN 0 ELSE pos[Len(pos)] + 1
         IN  recloop_pi(pos_start, order, depth, alpha_new, pos, n, m, terms,
                        n - (order - depth))
             \o recloop_ai(ai + 1, order, depth, alpha, pos, n, m, terms)

recloop(order, depth, alpha, pos, n, m, terms) ==
    recloop_ai(1, order, depth, alpha, pos, n, m, terms)

\* --------------------------------------------- AmariSolve._generate_matrix
\* A = dok_matrix((order_idx[k], dim)), then
\* A[row_counter, cols] = 1 ; row_counter += 1, for every inserted row.
\* g carries A, row_counter, the insertion labels and an error flag
\* (IndexError when a row or column lies outside the allocated shape).
RECURSIVE FillRows(_, _, _, _)
FillRows(ins, i, dim, g) ==
    IF i > Len(ins) THEN g
    ELSE LET cs == {ins[i].cols[t] : t \in 1..Len(ins[i].cols)}
             bad == (g.row_counter >= Len(g.A))
                    \/ (\E c \in cs : (c < 0) \/ (c >= dim))
         IN  IF bad \/ g.err
             THEN [g EXCEPT !.err = TRUE]
             ELSE FillRows(ins, i + 1, dim,
                    [A |-> [g.A EXCEPT ![g.row_counter + 1] = @ \cup cs],
                     row_counter |-> g.row_counter + 1,
                     labels |-> Append(g.labels,
                                  [pos |-> ins[i].pos, alpha |-> ins[i].alpha]),
                     err |-> FALSE])

RECURSIVE GenOrdersLoop(_, _, _, _, _, _)
GenOrdersLoop(ordi, k, n, m, dim, g) ==
    IF ordi >= k THEN g
    ELSE LET nterms == Pow(m, n - (ordi + 1))
             terms  == dec2base([t \in 1..nterms |-> t - 1], m, n - (ordi + 1))
             ins    == recloop(ordi + 1, 1, <<>>, <<>>, n, m, terms)
         IN  GenOrdersLoop(ordi + 1, k, n, m, dim, FillRows(ins, 1, dim, g))

generate_matrix(k, n, m, dim) ==
    LET co == calculate_orders(k, n, m, dim)
        g0 == [A |-> [r \in 1..co.order_idx[k + 1] |-> {}],
               row_counter |-> 0, labels |-> <<>>, err |-> FALSE]
        g1 == GenOrdersLoop(0, k, n, m, dim, g0)
    IN  [A |-> g1.A, Ashape |-> <<co.order_idx[k + 1], dim>>,
         order_idx |-> co.order_idx,
         order_length |-> co.order_length, Annz |-> co.Annz,
         row_counter |-> g1.row_counter, labels |-> g1.labels,
         err |-> g1.err]

\* ------------------------------------------------ sparse matrix products
\* A.matvec(v): entry r is the sum of v over the columns of row r
matvec(A, v) ==
    [r \in 1..Len(A) |->
        LET cs == SortedSeq(A[r])
        IN  RSum([t \in 1..Len(cs) |-> v[cs[t] + 1]])]

RECURSIVE RProd(_)
RProd(v) == IF Len(v) = 0 THEN ROne ELSE RMul(v[1], RProd(Tail(v)))

\* np.exp(A.T.matvec(theta)) with theta carried as E = exp(theta):
\* entry c is the product of E over the rows holding a 1 in column c
expATtheta(A, E, ncols) ==
    [c1 \in 1..ncols |->
        LET rs == SortedSeq({r \in 1..Len(A) : (c1 - 1) \in A[r]})
        IN  RProd([t \in 1..Len(rs) |-> E[rs[t]]])]

\* result of a call: tag "ok" with a vector, or the exception raised
Ok(v) == [tag |-> "ok", val |-> v]
Raise(e) == [tag |-> e, val |-> <<>>]

\* ------------------------------------------- AmariSolve._p_from_theta
\* pnorm(np.exp(self.A.T.matvec(theta))), pnorm(p) = p / (p.sum() + 1)
pnorm(p) ==
    LET Z == RAdd(RSum(p), ROne)
    IN  [c1 \in 1..Len(p) |-> RDiv(p[c1], Z)]

p_from_theta(obj, theta) ==
    IF "A" \notin obj.attrs THEN Raise("AttributeError")
    ELSE IF Len(theta) # obj.Ashape[1] THEN Raise("ValueError")
    ELSE Ok(pnorm(expATtheta(obj.A, theta, obj.Ashape[2])))

\* ------------------------------------------------ AmariSolve.eta_from_p
\* eta_from_p multiplying A with p[:-1], so that column c reads p[c]
eta_from_p_shifted(obj, p) ==
    IF "A" \notin obj.attrs THEN Raise("AttributeError")
    ELSE IF Len(p) - 1 # obj.Ashape[2] THEN Raise("ValueError")
    ELSE Ok(matvec(obj.A, SubSeq(p, 1, Len(p) - 1)))

\* self.A.matvec(p[1:])
eta_from_p(obj, p) ==
    IF "A" \notin obj.attrs THEN Raise("AttributeError")
    ELSE IF Len(p) - 1 # obj.Ashape[2] THEN Raise("ValueError")
    ELSE Ok(matvec(obj.A, Tail(p)))

\* ---------------------------------------------- AmariSolve.theta_from_p
\* spsolve(B, b) in the E representation: the E with, for every row c of
\* B, product of E over the ones of row c equal to b[c]; found by
\* substitution, one unknown at a time
RECURSIVE spsolve_sub(_, _, _, _)
spsolve_sub(B, b, E, unk) ==
    IF unk = {} THEN Ok(E)
    ELSE LET cands == {c1 \in 1..Len(B) : Cardinality(B[c1] \cap unk) = 1}
         IN  IF cands = {} THEN Raise("LinAlgError")
             ELSE LET c1 == CHOOSE c \in cands : \A d \in cands : c <= d
                      r  == CHOOSE x \in B[c1] \cap unk : TRUE
                      ks == SortedSeq(B[c1] \ {r})
                      kp == RProd([t \in 1..Len(ks) |-> E[ks[t]]])
                  IN  spsolve_sub(B, b, [E EXCEPT ![r] = RDiv(b[c1], kp)],
                                  unk \ {r})

\* the transpose: row c1 of A.T holds the (1-based) rows of A with column c1-1
transpose(A, ncols) == [c1 \in 1..ncols |-> {r \in 1..Len(A) : (c1 - 1) \in A[r]}]

spsolve(B, nB, b) ==
    IF (Len(B) # nB) \/ (Len(b) # Len(B)) THEN Raise("ValueError")
    ELSE spsolve_sub(B, b, [r \in 1..nB |-> ROne], 1..nB)

theta_from_p(obj, p) ==
    IF Len(p) = 0 THEN Raise("IndexError")
    ELSE LET b == [c1 \in 1..(Len(p) - 1) |-> RDiv(p[c1 + 1], p[1])]
         IN  IF "B" \notin obj.attrs THEN Raise("AttributeError")
             ELSE spsolve(obj.B, obj.Ashape[1], b)

\* ------------------------------------------------ AmariSolve._solvefunc
\* y = eta_sampled - Asmall.matvec(b) / (b.sum() + 1), b = exp(Bsmall.theta);
\* numpy broadcasts a one-element eta_sampled over the l entries
solvefunc(theta_un, Asmall, ncols, eta_sampled) ==
    IF Len(theta_un) # Len(Asmall) THEN Raise("ValueError")
    ELSE LET b == expATtheta(Asmall, theta_un, ncols)
             Z == RAdd(RSum(b), ROne)
             q == matvec(Asmall, b)
         IN  IF Len(eta_sampled) = Len(q)
             THEN Ok([r \in 1..Len(q) |-> RSub(eta_sampled[r], RDiv(q[r], Z))])
             ELSE IF Len(eta_sampled) = 1
             THEN Ok([r \in 1..Len(q) |-> RSub(eta_sampled[1], RDiv(q[r], Z))])
             ELSE Raise("ValueError")

\* ----------------------------------------------------- AmariSolve.solve
Min(a, b) == IF a < b THEN a ELSE b

\* the default of solve's argument ic_offset (its value, -0.01, enters no
\* result of the model: it is carried as a name)
ic_offset == "-0.01"

\* scipy.optimize.fsolve(sf, x0, args) is a library routine.  It evaluates
\* the residual at x0 first (an exception there propagates, and depends on
\* the shapes only, so a vector of x0's length stands for x0); the point it
\* ends on (the_k) is an input of the call; it reports ier = 1 (converged)
\* when the residual there is zero and ier = 5 (not making good progress)
\* otherwise.  The result is optout = (x, infodict['fvec'], ier).
fsolve(x0, the_k, Asmall, ncols, eta_sampled) ==
    LET first == solvefunc([i \in 1..Len(x0) |-> ROne], Asmall, ncols,
                           eta_sampled)
        fvec  == solvefunc(the_k, Asmall, ncols, eta_sampled)
    IN  IF first.tag # "ok" THEN [tag |-> first.tag, optout |-> <<>>]
        ELSE [tag |-> "ok",
              optout |-> [x |-> the_k, fvec |-> fvec.val,
                          ier |-> IF \A i \in 1..Len(fvec.val) :
                                        fvec.val[i] = RZero
                                  THEN 1 ELSE 5]]

\* solve working on the whole matrix instead of the slice A[:l,:]
solve_allrows(obj, Pr, k, eta_given, the_k) ==
    IF "order_idx" \notin obj.attrs
    THEN [optout |-> obj.optout, ret |-> Raise("AttributeError"), eta |-> <<>>,
          ran |-> FALSE, x0 |-> <<>>, theta |-> <<>>]
    ELSE
    LET l      == obj.order_idx[k + 1]
        theta0 == [i \in 1..(obj.order_idx[Len(obj.order_idx)]
                              - obj.order_idx[k + 1] - 1) |-> ROne]
        x0     == [i \in 1..l |-> ic_offset]
        Asmall == obj.A
        etaerr == (~eta_given) /\ (Len(Pr) # obj.Ashape[2])
        eta_sampled == IF eta_given THEN SubSeq(Pr, 1, Min(l, Len(Pr)))
                       ELSE IF etaerr THEN <<>>
                       ELSE matvec(Asmall, Pr)
        out    == fsolve(x0, the_k, Asmall, obj.Ashape[2], eta_sampled)
    IN  IF etaerr
        THEN [optout |-> obj.optout, ret |-> Raise("ValueError"), eta |-> <<>>,
              ran |-> FALSE, x0 |-> x0, theta |-> <<>>]
        ELSE IF out.tag # "ok"
        THEN [optout |-> obj.optout, ret |-> Raise(out.tag),
              eta |-> eta_sampled, ran |-> FALSE, x0 |-> x0,
              theta |-> <<>>]
        ELSE [optout |-> out.optout,
              ret    |-> p_from_theta(obj, out.optout.x \o theta0),
              eta    |-> eta_sampled, ran |-> TRUE, x0 |-> x0,
              theta  |-> out.optout.x \o theta0]

\* solve raising when fsolve reports that it has not converged
solve_strict(obj, Pr, k, eta_given, the_k) ==
    IF "order_idx" \notin obj.attrs
    THEN [optout |-> obj.optout, ret |-> Raise("AttributeError"), eta |-> <<>>,
          ran |-> FALSE, x0 |-> <<>>, theta |-> <<>>]
    ELSE
    LET l      == obj.order_idx[k + 1]
        theta0 == [i \in 1..(obj.order_idx[Len(obj.order_idx)]
                              - obj.order_idx[k + 1] - 1) |-> ROne]
        x0     == [i \in 1..l |-> ic_offset]
        Asmall == SubSeq(obj.A, 1, Min(l, obj.Ashape[1]))
        etaerr == (~eta_given) /\ (Len(Pr) # obj.Ashape[2])
        eta_sampled == IF eta_given THEN SubSeq(Pr, 1, Min(l, Len(Pr)))
                       ELSE IF etaerr THEN <<>>
                       ELSE matvec(Asmall, Pr)
        out    == fsolve(x0, the_k, Asmall, obj.Ashape[2], eta_sampled)
    IN  IF etaerr
        THEN [optout |-> obj.optout, ret |-> Raise("ValueError"), eta |-> <<>>,
              ran |-> FALSE, x0 |-> x0, theta |-> <<>>]
        ELSE IF out.tag # "ok"
        THEN [optout |-> obj.optout, ret |-> Raise(out.tag),
              eta |-> eta_sampled, ran |-> FALSE, x0 |-> x0,
              theta |-> <<>>]
        ELSE [optout |-> out.optout,
              ret    |-> IF out.optout.ier # 1 THEN Raise("RuntimeError")
                         ELSE p_from_theta(obj, out.optout.x \o theta0),
              eta    |-> eta_sampled, ran |-> TRUE, x0 |-> x0,
              theta  |-> out.optout.x \o theta0]

\* solve padding theta with order_idx[-1] - order_idx[k] zeros
solve_theta0_long(obj, Pr, k, eta_given, the_k) ==
    IF "order_idx" \notin obj.attrs
    THEN [optout |-> obj.optout, ret |-> Raise("AttributeError"), eta |-> <<>>,
          ran |-> FALSE, x0 |-> <<>>, theta |-> <<>>]
    ELSE
    LET l      == obj.order_idx[k + 1]
        theta0 == [i \in 1..(obj.order_idx[Len(obj.order_idx)]
                              - obj.order_idx[k + 1]) |-> ROne]
        x0     == [i \in 1..l |-> ic_offset]
        Asmall == SubSeq(obj.A, 1, Min(l, obj.Ashape[1]))
        etaerr == (~eta_given) /\ (Len(Pr) # obj.Ashape[2])
        eta_sampled == IF eta_given THEN SubSeq(Pr, 1, Min(l, Len(Pr)))
                       ELSE IF etaerr THEN <<>>
                       ELSE matvec(Asmall, Pr)
        out    == fsolve(x0, the_k, Asmall, obj.Ashape[2], eta_sampled)
    IN  IF etaerr
        THEN [optout |-> obj.optout, ret |-> Raise("ValueError"), eta |-> <<>>,
              ran |-> FALSE, x0 |-> x0, theta |-> <<>>]
        ELSE IF out.tag # "ok"
        THEN [optout |-> obj.optout, ret |-> Raise(out.tag),
              eta |-> eta_sampled, ran |-> FALSE, x0 |-> x0,
              theta |-> <<>>]
        ELSE [optout |-> out.optout,
              ret    |-> p_from_theta(obj, out.optout.x \o theta0),
              eta    |-> eta_sampled, ran |-> TRUE, x0 |-> x0,
              theta  |-> out.optout.x \o theta0]

\* The result carries the value returned (or the exception raised), the
\* optout attribute after the call, the local eta_sampled and whether
\* fsolve returned (ran).
\* also the initial guess x0 and the vector passed to _p_from_theta.
solve(obj, Pr, k, eta_given, the_k) ==
    IF "order_idx" \notin obj.attrs
    THEN [optout |-> obj.optout, ret |-> Raise("AttributeError"), eta |-> <<>>,
          ran |-> FALSE, x0 |-> <<>>, theta |-> <<>>]
    ELSE
    LET l      == obj.order_idx[k + 1]
        theta0 == [i \in 1..(obj.order_idx[Len(obj.order_idx)]
                              - obj.order_idx[k + 1] - 1) |-> ROne]
        x0     == [i \in 1..l |-> ic_offset]
        Asmall == SubSeq(obj.A, 1, Min(l, obj.Ashape[1]))
        etaerr == (~eta_given) /\ (Len(Pr) # obj.Ashape[2])
        eta_sampled == IF eta_given THEN SubSeq(Pr, 1, Min(l, Len(Pr)))
                       ELSE IF etaerr THEN <<>>
                       ELSE matvec(Asmall, Pr)
        out    == fsolve(x0, the_k, Asmall, obj.Ashape[2], eta_sampled)
    IN  IF etaerr
        THEN [optout |-> obj.optout, ret |-> Raise("ValueError"), eta |-> <<>>,
              ran |-> FALSE, x0 |-> x0, theta |-> <<>>]
        ELSE IF out.tag # "ok"
        THEN [optout |-> obj.optout, ret |-> Raise(out.tag),
              eta |-> eta_sampled, ran |-> FALSE, x0 |-> x0,
              theta |-> <<>>]
        ELSE [optout |-> out.optout,
              ret    |-> p_from_theta(obj, out.optout.x \o theta0),
              eta    |-> eta_sampled, ran |-> TRUE, x0 |-> x0,
              theta  |-> out.optout.x \o theta0]

\* ------------------------------------------------------------- inputs
Seeds == 0..(NumSeeds - 1)

\* a probability vector of the given length: weights 1 + (i*s mod 3),
\* normalised to sum to 1 (s = 0 is the uniform distribution)
PVec(len, s) ==
    LET w == [i \in 1..len |-> 1 + (((i - 1) * s) % 3)]
        W == RSum([i \in 1..len |-> <<w[i], 1>>])
    IN  [i \in 1..len |-> RDiv(<<w[i], 1>>, W)]

\* a theta vector (as E = exp(theta)) of the given length whose entries
\* after the first `upto` are zero (E = 1); s = 0 is theta = 0
EVals == <<ROne, <<2, 1>>, <<1, 2>>>>
ThetaVec(len, s, upto) ==
    [r \in 1..len |-> IF r > upto THEN ROne ELSE EVals[((r * s) % 3) + 1]]

\* an eta vector supplied directly: s = 0 is all 1/2
EtaVec(len, s) == [r \in 1..len |-> <<1, 2 + ((r * s) % 3)>>]

\* decimal rendering used by "n%im%i" % (n, m)
DigitChars == <<"0", "1", "2", "3", "4", "5", "6", "7", "8", "9">>
RECURSIVE FormatInt(_)
FormatInt(i) ==
    IF i < 10 THEN <<DigitChars[i + 1]>>
    ELSE FormatInt(i \div 10) \o <<DigitChars[(i % 10) + 1]>>

\* the name built without the letters n and m between the parts
FileName_nosep(prefix, n, m) == <<prefix>> \o FormatInt(n) \o FormatInt(m)

\* filename + "n%im%i" % (n, m)
FileName(prefix, n, m) == <<prefix, "n">> \o FormatInt(n) \o <<"m">> \o FormatInt(m)

\* generate_matrix tabulated over the parameters in use, so that the matrix
\* of a parameter set is computed once
GenTable ==
    [n \in 0..MaxN |-> [m \in 1..MaxM |->
        [k \in (IF n = 0 THEN {0} ELSE 1..n) |->
            generate_matrix(k, n, m, Pow(m, n) - 1)]]]

\* ---------------------------------------------------------------- state
VARIABLES
    cfg,        \* the arguments n, m, local the program constructs with
    dir_exists, \* whether the storage directory of cfg.local exists
    files,      \* that directory's .mat files: file name -> saved dictionary
                \* (with the labels of the rows of the saved matrix)
    self,       \* the AmariSolve instance the caller holds (attrs: attributes set)
    ctor,       \* how the constructor of `self` completed, and the (pos, alpha)
                \* locals of _recloop at each row it inserted
    hist,       \* the calls made since a fresh argument was supplied: every
                \* later entry took the previous entry's result as argument
                \* (eta: the local eta_sampled of a solve call; diag: what
                \* fsolve returned to it, NoOptout if it did not return;
                \* x0: its initial guess; theta: what it passed to
                \* _p_from_theta)
    conc,       \* processes running the constructor concurrently: where each
                \* is in __init__ (pc), which are inside savemat (writers),
                \* whether a savemat has completed (persisted)
    util        \* the arguments a caller of the conversion utilities holds
                \* (arg: as first supplied; x: the array object, which si2un
                \* and un2si change in place) and the calls made on them

vars == <<cfg, dir_exists, files, self, ctor, hist, conc, util>>

Procs == 1..NumProcs
NoConc == [pc |-> [p \in Procs |-> "start"], writers |-> {}, persisted |-> FALSE]

NoOptout == [x |-> <<>>, fvec |-> <<>>, ier |-> 0]
NoUtil == [arg |-> <<>>, x |-> <<>>, calls |-> <<>>]

NoObj ==
    [attrs |-> {}, k |-> 0, n |-> 0, m |-> 0, l |-> 0, dim |-> 0,
     filename |-> <<>>, A |-> <<>>, Ashape |-> <<0, 0>>, B |-> <<>>,
     order_idx |-> <<>>,
     order_length |-> <<>>, row_counter |-> 0, Annz |-> 0,
     optout |-> NoOptout]

Init ==
    /\ cfg \in [n : 0..MaxN, m : 1..MaxM, local : BOOLEAN]
    /\ dir_exists \in BOOLEAN
    /\ files = <<>>
    /\ self = NoObj
    /\ ctor = [how |-> "none", labels |-> <<>>]
    /\ hist = <<>>
    /\ conc = NoConc
    /\ util = NoUtil

\* the parameters the interface is documented for; nothing in the code
\* tests them
ValidNM == (cfg.n >= 1) /\ (cfg.m >= 2)

Entry(op, arg, k, eta_given, src, ret, eta) ==
    [op |-> op, arg |-> arg, k |-> k, eta_given |-> eta_given, src |-> src,
     tag |-> ret.tag, val |-> ret.val, eta |-> eta, diag |-> NoOptout,
     x0 |-> <<>>, theta |-> <<>>]

\* --------------------------------------------------- AmariSolve.__init__
\* sio.savemat(self.filename, {'A': self.A, 'order_idx': self.order_idx}):
\* the sparse matrix is stored as it is, the 1-d array order_idx as a
\* matrix of one row (labels: the (pos, alpha) of each stored row)
savemat(g) ==
    [A |-> g.A, Ashape |-> g.Ashape, order_idx |-> <<g.order_idx>>,
     labels |-> g.labels]

\* an array left as loadmat returns it
squeeze_none(x) == x

\* ndarray.squeeze(): axes of length one are dropped
squeeze(x) == IF Len(x) = 1 THEN x[1] ELSE x

\* self._umfpack(): B = A.T (the factorisation object is not modelled)
umfpack(obj) ==
    [obj EXCEPT !.B = transpose(obj.A, obj.Ashape[2]),
                !.attrs = @ \cup {"B", "umf"}]

\* the constructor raised: no instance is returned, the caller keeps `self`
CtorRaise(prefix, e) ==
    /\ hist' = <<Entry("__init__", <<prefix>>, 0, FALSE, "fresh", Raise(e), <<>>)>>
    /\ UNCHANGED <<self, ctor>>

\* kcls: the attribute k a derived class defines (0: none, so self.k = n);
\* prefix: the filename argument; inkey: the answer typed at the
\* "Generate matrix? (y/n)" prompt; mkdir_ok: whether os.mkdir succeeds;
\* empty_ok: whether the sparse library accepts a matrix with no rows or
\* no columns (sparse.dok_matrix raises ValueError, invalid shape, if not)
New(kcls, prefix, inkey, mkdir_ok, empty_ok) ==
    LET n    == cfg.n
        m    == cfg.m
        k    == IF kcls = 0 THEN n ELSE kcls
        dim  == Pow(m, n) - 1
        name == FileName(prefix, n, m)
        o0   == [NoObj EXCEPT !.attrs = {"k", "n", "m", "l", "dim", "filename"},
                              !.k = k, !.n = n, !.m = m,
                              !.l = (m - 1) \div 2, !.dim = dim,
                              !.filename = name]
        fin(o) == IF HAS_UMFPACK THEN umfpack(o) ELSE o
        \* get_data_dir() creates the package directory when it is absent
        made == (~cfg.local) /\ (~dir_exists) /\ mkdir_ok
    IN  /\ IF hist = <<>> THEN TRUE ELSE hist[1].op = "__init__"
        /\ UNCHANGED <<cfg, conc, util>>
        /\ IF prefix = "None"
           THEN \* None + "n%im%i" % (n, m) raises TypeError
                /\ CtorRaise(prefix, "TypeError")
                /\ UNCHANGED <<dir_exists, files>>
           ELSE IF (~cfg.local) /\ (~dir_exists) /\ (~mkdir_ok)
           THEN \* get_data_dir re-raises the os.mkdir error
                /\ CtorRaise(prefix, "OSError")
                /\ UNCHANGED <<dir_exists, files>>
           ELSE
           /\ dir_exists' = (dir_exists \/ made)
           /\ IF name \in DOMAIN files
              THEN /\ self' = fin([o0 EXCEPT !.A = files[name].A,
                                             !.Ashape = files[name].Ashape,
                                             !.order_idx =
                                                 squeeze(files[name].order_idx),
                                             !.attrs = @ \cup {"A", "order_idx"}])
                   /\ ctor' = [how |-> "loaded", labels |-> files[name].labels]
                   /\ hist' = <<>>
                   /\ UNCHANGED files
              ELSE IF inkey = "y"
              THEN LET g == GenTable[n][m][k]
                   IN  IF (g.Ashape[1] = 0 \/ g.Ashape[2] = 0) /\ ~empty_ok
                       THEN /\ CtorRaise(prefix, "ValueError")
                            /\ UNCHANGED files
                       ELSE IF g.err
                       THEN /\ CtorRaise(prefix, "IndexError")
                            /\ UNCHANGED files
                       ELSE IF ~dir_exists'
                       THEN \* sio.savemat cannot open the file
                            /\ CtorRaise(prefix, "IOError")
                            /\ UNCHANGED files
                       ELSE
                       /\ self' = fin([o0 EXCEPT
                              !.A = g.A, !.Ashape = g.Ashape,
                              !.order_idx = g.order_idx,
                              !.order_length = g.order_length,
                              !.row_counter = g.row_counter, !.Annz = g.Annz,
                              !.attrs = @ \cup {"A", "order_idx", "order_length",
                                  "row_counter", "Annz", "nterms", "terms"}])
                       /\ files' = (name :> savemat(g)) @@ files
                       /\ ctor' = [how |-> "generated", labels |-> g.labels]
                       /\ hist' = <<>>
              ELSE /\ self' = o0
                   /\ ctor' = [how |-> "aborted", labels |-> <<>>]
                   /\ hist' = <<>>
                   /\ UNCHANGED files

\* (the prompt is only reached when the file is missing, os.mkdir only
\* when the package directory is)
Construct ==
    \E kcls \in 0..cfg.n, prefix \in {"a_", "None"} :
        \E inkey \in (IF FileName(prefix, cfg.n, cfg.m) \in DOMAIN files
                       THEN {"y"} ELSE {"y", "n"}),
           mkdir_ok \in (IF cfg.local \/ dir_exists THEN {TRUE} ELSE BOOLEAN),
           empty_ok \in (IF ValidNM THEN {TRUE} ELSE BOOLEAN) :
            New(kcls, prefix, inkey, mkdir_ok, empty_ok)

\* ------------------------------------------------------ method calls
HasObj == ctor.how # "none"

\* A call may take the value the previous call returned as its argument
\* when that value is of the kind the call expects: an eta vector is what
\* eta_from_p returns, and a probability vector what solve and
\* _p_from_theta return.
\* A solve that took its argument from a previous call ends the run.
CanChain(ops) ==
    /\ Len(hist) > 0
    /\ hist[Len(hist)].tag = "ok"
    /\ hist[Len(hist)].op \in ops
    /\ ~(hist[Len(hist)].op = "solve" /\ hist[Len(hist)].src = "chain")
LastVal == hist[Len(hist)].val
ProbOps == {"p_from_theta", "solve"}

\* a fresh argument starts a run of calls (on instances of documented
\* parameters)
CanStart ==
    HasObj /\ ValidNM /\ (hist = <<>>) /\ (Pow(cfg.m, cfg.n) <= MaxStates)

\* lengths a caller may give a probability vector: m^n, or m^n - 1
PLens == {self.dim + 1, self.dim}
PInputs == {PVec(len, s) : len \in PLens, s \in Seeds}

\* theta vectors: one entry per row of A (or dim when no matrix is held),
\* zero above order kk for some kk
ThetaInputs ==
    LET lens  == {self.dim} \cup (IF "A" \in self.attrs THEN {Len(self.A)} ELSE {})
        uptos == IF "order_idx" \in self.attrs
                 THEN {self.order_idx[kk + 1] : kk \in 1..self.n}
                 ELSE {self.dim}
    IN  {ThetaVec(len, s, u) : len \in lens, s \in Seeds, u \in uptos}

Apply1(op, arg, src, ret) ==
    /\ hist' = (IF src = "chain" THEN hist ELSE <<>>)
                \o <<Entry(op, arg, 0, FALSE, src, ret, <<>>)>>
    /\ UNCHANGED <<cfg, dir_exists, files, self, ctor, conc, util>>

\* (theta_from_p returns no value on any instance, HAS_UMFPACK being FALSE,
\* so there is never a theta vector to take from a previous call)
PFromTheta ==
    /\ CanStart
    /\ \E theta \in ThetaInputs :
         Apply1("p_from_theta", theta, "fresh", p_from_theta(self, theta))

EtaFromP ==
    \/ /\ CanStart
       /\ \E p \in PInputs :
            Apply1("eta_from_p", p, "fresh", eta_from_p(self, p))
    \/ /\ CanChain(ProbOps)
       /\ Apply1("eta_from_p", LastVal, "chain", eta_from_p(self, LastVal))

ThetaFromP ==
    \/ /\ CanStart
       /\ \E p \in PInputs :
            Apply1("theta_from_p", p, "fresh", theta_from_p(self, p))
    \/ /\ CanChain(ProbOps)
       /\ Apply1("theta_from_p", LastVal, "chain", theta_from_p(self, LastVal))

\* s2 selects the point fsolve ends on
DoSolve(Pr, k, eta_given, src, s2) ==
    LET l     == IF "order_idx" \in self.attrs THEN self.order_idx[k + 1] ELSE 0
        the_k == ThetaVec(l, s2, l)
    IN  \E r \in {solve(self, Pr, k, eta_given, the_k)} :
        /\ hist' = (IF src = "chain" THEN hist ELSE <<>>)
                    \o <<[Entry("solve", Pr, k, eta_given, src, r.ret, r.eta)
                           EXCEPT !.diag = IF r.ran THEN r.optout
                                           ELSE NoOptout,
                                  !.x0 = r.x0, !.theta = r.theta]>>
        /\ self' = [self EXCEPT !.optout = r.optout,
                        !.attrs = IF r.optout = NoOptout THEN @
                                  ELSE @ \cup {"optout"}]
        /\ UNCHANGED <<cfg, dir_exists, files, ctor, conc, util>>

Solve ==
    \E k \in 1..cfg.n, s2 \in Seeds :
        \/ /\ CanStart
           /\ \E Pr \in PInputs : DoSolve(Pr, k, FALSE, "fresh", s2)
        \/ /\ CanStart
           /\ \E s \in Seeds :
                LET l == IF "order_idx" \in self.attrs
                         THEN self.order_idx[k + 1] ELSE self.dim
                IN  DoSolve(EtaVec(l, s), k, TRUE, "fresh", s2)
        \/ /\ CanChain(ProbOps)
           /\ DoSolve(LastVal, k, FALSE, "chain", s2)
        \/ /\ CanChain({"eta_from_p"})
           /\ DoSolve(LastVal, k, TRUE, "chain", s2)

Next ==
    \/ Construct
    \/ PFromTheta
    \/ EtaFromP
    \/ ThetaFromP
    \/ Solve

Spec == Init /\ [][Next]_vars

\* ------------------------------------- concurrent constructor calls
\* Several processes run AmariSolve(n, m, local=cfg.local) against the same
\* storage directory; each step below is one file-system operation (or the
\* prompt, or the computation of the matrix) of __init__, and the steps of
\* different processes interleave.  The code takes no lock.
SetPc(p, to) == conc' = [conc EXCEPT !.pc[p] = to]
At(p, at) == conc.pc[p] = at
ConcName == FileName("a_", cfg.n, cfg.m)

\* filename is computed; get_data_dir is entered unless local
Begin(p) ==
    /\ At(p, "start")
    /\ SetPc(p, IF cfg.local THEN "exists" ELSE "isdir")
    /\ UNCHANGED <<dir_exists, files>>

\* get_data_dir: if not os.path.isdir(data_dir)
IsDir(p) ==
    /\ At(p, "isdir")
    /\ SetPc(p, IF dir_exists THEN "exists" ELSE "mkdir")
    /\ UNCHANGED <<dir_exists, files>>

\* get_data_dir: os.mkdir(data_dir), its error re-raised; it fails when the
\* directory has been created in the meantime
Mkdir(p) ==
    /\ At(p, "mkdir")
    /\ \E ok \in BOOLEAN :
         IF ok /\ ~dir_exists
         THEN dir_exists' = TRUE /\ SetPc(p, "exists")
         ELSE dir_exists' = dir_exists /\ SetPc(p, "raised_OSError")
    /\ UNCHANGED files

\* elif os.path.exists(self.filename + '.mat')
Exists(p) ==
    /\ At(p, "exists")
    /\ SetPc(p, IF ConcName \in DOMAIN files THEN "loadmat" ELSE "prompt")
    /\ UNCHANGED <<dir_exists, files>>

\* sio.loadmat: reading a file another process is still writing gives an
\* error or incomplete data
Loadmat(p) ==
    /\ At(p, "loadmat")
    /\ SetPc(p, IF conc.writers # {} THEN "loaded_partial" ELSE "loaded")
    /\ UNCHANGED <<dir_exists, files>>

\* inkey = raw_input(...)
Prompt(p) ==
    /\ At(p, "prompt")
    /\ \E inkey \in {"y", "n"} :
         SetPc(p, IF inkey = "y" THEN "generate" ELSE "aborted")
    /\ UNCHANGED <<dir_exists, files>>

\* _generate_matrix up to the call of savemat
Generate(p) ==
    /\ At(p, "generate")
    /\ SetPc(p, IF GenTable[cfg.n][cfg.m][cfg.n].err
                 THEN "raised_IndexError" ELSE "savemat")
    /\ UNCHANGED <<dir_exists, files>>

\* sio.savemat opens (creates or truncates) the file
SaveOpen(p) ==
    /\ At(p, "savemat")
    /\ IF ~dir_exists
       THEN SetPc(p, "raised_IOError") /\ UNCHANGED files
       ELSE /\ conc' = [conc EXCEPT !.pc[p] = "writing",
                                     !.writers = @ \cup {p}]
            /\ files' = (ConcName :> savemat(GenTable[cfg.n][cfg.m][cfg.n]))
                          @@ files
    /\ UNCHANGED dir_exists

\* sio.savemat has written and closed the file
SaveClose(p) ==
    /\ At(p, "writing")
    /\ conc' = [conc EXCEPT !.pc[p] = "generated", !.writers = @ \ {p},
                             !.persisted = TRUE]
    /\ UNCHANGED <<dir_exists, files>>

\* the processes hold their own instances; the sequential caller is idle
ConcFrame == UNCHANGED <<cfg, self, ctor, hist, util>>

PBegin == ConcFrame /\ \E p \in Procs : Begin(p)
PIsDir == ConcFrame /\ \E p \in Procs : IsDir(p)
PMkdir == ConcFrame /\ \E p \in Procs : Mkdir(p)
PExists == ConcFrame /\ \E p \in Procs : Exists(p)
PLoadmat == ConcFrame /\ \E p \in Procs : Loadmat(p)
PPrompt == ConcFrame /\ \E p \in Procs : Prompt(p)
PGenerate == ConcFrame /\ \E p \in Procs : Generate(p)
PSaveOpen == ConcFrame /\ \E p \in Procs : SaveOpen(p)
PSaveClose == ConcFrame /\ \E p \in Procs : SaveClose(p)

NextConc ==
    \/ PBegin
    \/ PIsDir
    \/ PMkdir
    \/ PExists
    \/ PLoadmat
    \/ PPrompt
    \/ PGenerate
    \/ PSaveOpen
    \/ PSaveClose

InitConc == Init /\ ValidNM

SpecConc == InitConc /\ [][NextConc]_vars

\* ------------------------------------------ AmariSolve.si2un / un2si
\* x.max() and x.min() of a 1-d integer array; numpy raises ValueError for
\* the reduction of an empty array
amax(x) == CHOOSE v \in {x[i] : i \in 1..Len(x)} : \A i \in 1..Len(x) : x[i] <= v
amin(x) == CHOOSE v \in {x[i] : i \in 1..Len(x)} : \A i \in 1..Len(x) : v <= x[i]

\* si2un(self, x): the range test, then x[np.where(x<0)] += self.m in place;
\* x is the array after the call, nothing is returned
si2un(o, x) ==
    IF Len(x) = 0 THEN [tag |-> "ValueError", x |-> x]
    ELSE IF (amax(x) > o.l) \/ (amin(x) < -o.l)
    THEN [tag |-> "ValueError", x |-> x]
    ELSE [tag |-> "ok",
          x |-> [i \in 1..Len(x) |-> IF x[i] < 0 THEN x[i] + o.m ELSE x[i]]]

\* un2si(self, x): the range test, then x[np.where(x>self.l)] -= self.m
un2si(o, x) ==
    IF Len(x) = 0 THEN [tag |-> "ValueError", x |-> x]
    ELSE IF (amax(x) > o.m - 1) \/ (amin(x) < 0)
    THEN [tag |-> "ValueError", x |-> x]
    ELSE [tag |-> "ok",
          x |-> [i \in 1..Len(x) |-> IF x[i] > o.l THEN x[i] - o.m ELSE x[i]]]

\* the integer arrays a caller passes: up to MaxLen entries, in and out of
\* range
SignArrays == UNION {[1..len -> (-MaxM)..MaxM] : len \in 0..MaxLen}

\* A caller constructs AmariSolve(1, m, local=True) and converts an array
\* with it, call after call on the same array object (the conversions read
\* only self.m and self.l).
InitSign ==
    /\ cfg \in [n : {1}, m : 1..MaxM, local : {TRUE}]
    /\ dir_exists = TRUE
    /\ files = <<>>
    /\ self = NoObj
    /\ ctor = [how |-> "none", labels |-> <<>>]
    /\ hist = <<>>
    /\ conc = NoConc
    /\ util \in {[arg |-> a, x |-> a, calls |-> <<>>] : a \in SignArrays}

Convert(fn, r) ==
    /\ util' = [util EXCEPT !.x = r.x,
                    !.calls = Append(@, [fn |-> fn, m |-> self.m, l |-> self.l,
                                         before |-> util.x, tag |-> r.tag,
                                         after |-> r.x])]
    /\ UNCHANGED <<cfg, dir_exists, files, self, ctor, hist, conc>>

Si2Un == HasObj /\ (Len(util.calls) < MaxCalls) /\ Convert("si2un", si2un(self, util.x))
Un2Si == HasObj /\ (Len(util.calls) < MaxCalls) /\ Convert("un2si", un2si(self, util.x))

NextSign ==
    \/ Construct
    \/ Si2Un
    \/ Un2Si

SpecSign == InitSign /\ [][NextSign]_vars

\* ------------------------------------- utils.py: dec2base, base2dec, prob
\* An integer array is a record: nd its number of dimensions, v its rows
\* (nd = 2) or its values, each held as a row of one entry (nd = 1), cols
\* the length of a row.
Arr1(v) == [nd |-> 1, cols |-> 1, v |-> [t \in 1..Len(v) |-> <<v[t]>>]]
Arr2(rows, cols) == [nd |-> 2, cols |-> cols, v |-> rows]

\* the values of a one-dimensional array or of a column vector
flat(x) == [t \in 1..Len(x.v) |-> x.v[t][1]]

\* x.shape
shape(x) == IF x.nd = 1 THEN <<Len(x.v)>> ELSE <<Len(x.v), x.cols>>

\* dec2base as called: xs[1] of a one-dimensional shape is an IndexError,
\* a second dimension other than 1 the ValueError of the function
utils_dec2base(x, b, digits) ==
    LET xs == shape(x)
    IN  IF Len(xs) < 2 THEN Raise("IndexError")
        ELSE IF xs[2] # 1 THEN Raise("ValueError")
        ELSE Ok(Arr2(dec2base(flat(x), b, digits), digits))

\* base2dec as called: np.dot of a (t, d) array and a (d,) vector is a
\* one-dimensional array of t values
utils_base2dec(x, b) ==
    LET xs == shape(x)
    IN  IF Len(xs) < 2 THEN Raise("IndexError")
        ELSE Ok(Arr1(base2dec(x.v, b)))

\* np.bincount(x) of a non-empty sequence of non-negative integers
bincount(x) ==
    [i \in 1..(amax(x) + 1) |-> Cardinality({j \in 1..Len(x) : x[j] = i - 1})]

\* C.resize((n,)) in place when C has fewer than n entries
resize(C, n) == IF Len(C) < n THEN [i \in 1..n |-> IF i <= Len(C) THEN C[i] ELSE 0]
                ELSE C

\* utils._probcount(C, N, 'naive'): C / float(N)
utils_probcount(C, N) == [i \in 1..Len(C) |-> Rat(C[i], N)]

\* utils.prob(x, n, 'naive'): the counts go to _probcount with n
utils_prob(x, n) == Ok(utils_probcount(resize(bincount(x), n), n))

\* pyentropy.pyentropy._probcount(C, N, 'naive')
pyentropy_probcount(C, N) == [i \in 1..Len(C) |-> Rat(C[i], N)]

\* pyentropy.pyentropy.prob(x, n, 'naive'): the counts go to _probcount
\* with x.size
pyentropy_prob(x, n) == Ok(pyentropy_probcount(resize(bincount(x), n), Len(x)))

\* the words of d digits in base b, as rows
Words(b, d) == [1..d -> 0..(b - 1)]

\* what a caller hands to dec2base: column vectors of integers below b^d,
\* one-dimensional arrays of them, and arrays of two columns
DecInputs ==
    UNION {
      LET V == 0..(Pow(b, d) - 1)
      IN  {[kind |-> "dec", b |-> b, d |-> d, x |-> Arr2(rows, 1)] :
              rows \in UNION {[1..t -> [1..1 -> V]] : t \in 1..MaxLen}}
          \cup {[kind |-> "dec", b |-> b, d |-> d, x |-> Arr1(v)] :
              v \in UNION {[1..t -> V] : t \in 1..MaxLen}}
          \cup {[kind |-> "dec", b |-> b, d |-> d, x |-> Arr2(<<row>>, 2)] :
              row \in [1..2 -> V]}
      : b \in 2..MaxM, d \in 1..MaxLen }

\* what a caller hands to base2dec: arrays whose rows are words, and one
\* word as a one-dimensional array
WordInputs ==
    UNION {
      {[kind |-> "word", b |-> b, d |-> d, x |-> Arr2(rows, d)] :
          rows \in UNION {[1..t -> Words(b, d)] : t \in 1..MaxLen}}
      \cup {[kind |-> "word", b |-> b, d |-> d, x |-> Arr1(w)] : w \in Words(b, d)}
      : b \in 2..MaxM, d \in 1..MaxLen }

\* what a caller hands to prob: n bins and a non-empty sequence of
\* responses in 0..n-1, shorter than, as long as and longer than n
ProbInputs ==
    UNION {
      {[kind |-> "prob", b |-> 0, d |-> n, x |-> Arr1(v)] :
          v \in UNION {[1..t -> 0..(n - 1)] : t \in 1..(MaxLen + 1)}}
      : n \in 1..MaxM }

\* The utilities are module functions: no instance is involved.
InitUtils ==
    /\ cfg = [n |-> 1, m |-> 2, local |-> TRUE]
    /\ dir_exists = TRUE
    /\ files = <<>>
    /\ self = NoObj
    /\ ctor = [how |-> "none", labels |-> <<>>]
    /\ hist = <<>>
    /\ conc = NoConc
    /\ util \in {[arg |-> a, x |-> <<>>, calls |-> <<>>] :
                    a \in DecInputs \cup WordInputs \cup ProbInputs}

Call(fn, r) ==
    /\ util' = [util EXCEPT !.calls = Append(@, [fn |-> fn, tag |-> r.tag,
                                                 val |-> r.val])]
    /\ UNCHANGED <<cfg, dir_exists, files, self, ctor, hist, conc>>

\* a call on the argument supplied, or on what the other conversion
\* returned
Fresh(kind) == (util.calls = <<>>) /\ (util.arg.kind = kind)
After(fn) ==
    /\ Len(util.calls) = 1
    /\ util.calls[1].fn = fn
    /\ util.calls[1].tag = "ok"

Dec2Base ==
    \/ Fresh("dec") /\ Call("dec2base", utils_dec2base(util.arg.x, util.arg.b, util.arg.d))
    \/ After("base2dec")
          /\ Call("dec2base", utils_dec2base(util.calls[1].val, util.arg.b, util.arg.d))

Base2Dec ==
    \/ Fresh("word") /\ Call("base2dec", utils_base2dec(util.arg.x, util.arg.b))
    \/ After("dec2base")
          /\ Call("base2dec", utils_base2dec(util.calls[1].val, util.arg.b))

\* utils.prob and pyentropy.pyentropy.prob, each once on the sequence
\* supplied
Called(fn) == \E j \in 1..Len(util.calls) : util.calls[j].fn = fn

ProbUtils ==
    /\ util.arg.kind = "prob" /\ ~Called("utils.prob")
    /\ Call("utils.prob", utils_prob(flat(util.arg.x), util.arg.d))

ProbPyentropy ==
    /\ util.arg.kind = "prob" /\ ~Called("pyentropy.prob")
    /\ Call("pyentropy.prob", pyentropy_prob(flat(util.arg.x), util.arg.d))

NextUtils ==
    \/ Dec2Base
    \/ Base2Dec
    \/ ProbUtils
    \/ ProbPyentropy

SpecUtils == InitUtils /\ [][NextUtils]_vars

\* =================================================================== claims
\* (of an instance of documented parameters n >= 1, m >= 2)
Generated == ValidNM /\ (ctor.how = "generated")
Built == ValidNM /\ (ctor.how \in {"generated", "loaded"})

\* digit at position pos (0 = most significant) of x written as a length-n
\* base-m word
Digit(x, m, n, pos) == (x \div Pow(m, n - 1 - pos)) % m

\* the joint state with decimal index x carries the symbols of lab at its
\* positions
Agrees(x, lab, m, n) ==
    \A i \in 1..Len(lab.pos) : Digit(x, m, n, lab.pos[i]) = lab.alpha[i]

\* number of subsets of size o of n positions
Binomial(n, o) == Cardinality({S \in SUBSET (1..n) : Cardinality(S) = o})

RECURSIVE RowsUpTo(_, _, _)
RowsUpTo(n, m, o) ==
    IF o <= 0 THEN 0 ELSE Binomial(n, o) * Pow(m - 1, o) + RowsUpTo(n, m, o - 1)

\* C1: in a generated matrix every row r stands for a set of positions
\* (strictly increasing, within 0..n-1) with symbols in 1..m-1, and
\* A[r,c] = 1 exactly for the columns c in 0..dim-1 whose joint state c+1,
\* written as a length-n base-m word with the most significant digit at
\* position 0, carries those symbols at those positions.
C1_EntryIffStateAgrees ==
    Generated =>
        /\ Len(ctor.labels) = Len(self.A)
        /\ \A r \in 1..Len(self.A) :
              LET lab == ctor.labels[r]
              IN  /\ Len(lab.pos) = Len(lab.alpha)
                  /\ Len(lab.pos) >= 1
                  /\ \A i \in 1..Len(lab.pos) :
                        /\ lab.pos[i] \in 0..(self.n - 1)
                        /\ lab.alpha[i] \in 1..(self.m - 1)
                        /\ (i > 1) => (lab.pos[i - 1] < lab.pos[i])
                  /\ self.A[r] = {c \in 0..(self.dim - 1) :
                                    Agrees(c + 1, lab, self.m, self.n)}

\* a full matrix for n = 3, m = 3 has been generated; its second row fixes
\* the middle position
C1_Witness ==
    /\ Generated
    /\ self.n = 3 /\ self.m = 3 /\ self.k = 3
    /\ ctor.labels[2] = [pos |-> <<1>>, alpha |-> <<1>>]
    /\ self.A[2] = {2, 3, 4, 11, 12, 13, 20, 21, 22}

\* C2: a generated matrix has order_idx[k] rows and dim = m^n - 1 columns,
\* order_idx[k] is the sum over o = 1..k of C(n,o)*(m-1)^o, the row counter
\* ends at order_idx[k], no allocated row is left empty, and the builder
\* never writes outside the allocated rows.
C2_RowsAndColumns ==
    /\ Generated =>
          /\ self.Ashape = <<self.order_idx[self.k + 1], self.dim>>
          /\ self.dim = Pow(self.m, self.n) - 1
          /\ Len(self.A) = self.order_idx[self.k + 1]
          /\ self.order_idx[self.k + 1] = RowsUpTo(self.n, self.m, self.k)
          /\ self.row_counter = self.order_idx[self.k + 1]
          /\ \A r \in 1..Len(self.A) : self.A[r] # {}
    /\ \A i \in 1..Len(hist) :
          ~(hist[i].op = "__init__" /\ hist[i].tag = "IndexError")

\* n = 2, m = 2, k = 1: 2 rows and 3 columns
C2_Witness ==
    /\ Generated
    /\ self.n = 2 /\ self.m = 2 /\ self.k = 1
    /\ self.Ashape = <<2, 3>>
    /\ self.row_counter = 2

\* C10: after _calculate_orders order_idx has n+2 entries, starts at 0, is
\* non-decreasing, order_idx[i] is the sum of order_length[0..i-1] for
\* i <= n with order_length[i] = C(n,i+1)*(m-1)^(i+1), order_idx[n] = dim,
\* order_idx[n+1] = dim+1, and the order lengths sum to dim = m^n - 1.
RECURSIVE SumFirst(_, _)
SumFirst(v, i) == IF i <= 0 THEN 0 ELSE v[i] + SumFirst(v, i - 1)

C10_OrderIdx ==
    Generated =>
        /\ Len(self.order_idx) = self.n + 2
        /\ Len(self.order_length) = self.n + 1
        /\ self.order_idx[1] = 0
        /\ \A i \in 1..(self.n + 1) : self.order_idx[i] <= self.order_idx[i + 1]
        /\ \A i \in 0..self.n :
              /\ self.order_length[i + 1] = Binomial(self.n, i + 1)
                                               * Pow(self.m - 1, i + 1)
              /\ self.order_idx[i + 1] = SumFirst(self.order_length, i)
        /\ self.order_idx[self.n + 1] = self.dim
        /\ self.order_idx[self.n + 2] = self.dim + 1
        /\ SumFirst(self.order_length, self.n + 1) = self.dim
        /\ self.dim = Pow(self.m, self.n) - 1

\* n = 3, m = 3: order lengths 6, 12, 8 (and 0), boundaries 0, 6, 18, 26, 27
C10_Witness ==
    /\ Generated
    /\ self.n = 3 /\ self.m = 3
    /\ self.order_length = <<6, 12, 8, 0>>
    /\ self.order_idx = <<0, 6, 18, 26, 27>>

\* the instance holds the full matrix (one row per non-baseline state)
FullMatrix == Built /\ (Len(self.A) = self.dim)

IsProbOut(e) == (e.op \in {"solve", "p_from_theta"}) /\ (e.tag = "ok")

\* C3 (as claimed): every vector solve or _p_from_theta returns has only
\* non-negative entries and its entries sum to 1.
C3_NonNegativeSumsToOne ==
    \A i \in 1..Len(hist) :
        IsProbOut(hist[i]) =>
            /\ \A j \in 1..Len(hist[i].val) : hist[i].val[j][1] >= 0
            /\ RSum(hist[i].val) = ROne

\* C4 (as claimed): the vector solve or _p_from_theta returns has
\* dim+1 = m^n entries, entry 0 being the baseline state's probability (so
\* that the entries of all m^n states sum to 1), and can be passed
\* unchanged to eta_from_p or to solve.
C4_OutputInInputFormat ==
    \A i \in 1..Len(hist) :
        IsProbOut(hist[i]) =>
            /\ Len(hist[i].val) = self.dim + 1
            /\ RSum(hist[i].val) = ROne
            /\ (i < Len(hist) /\ hist[i + 1].op \in {"eta_from_p", "solve"})
                  => hist[i + 1].tag = "ok"

\* C5 (as claimed): solve called with eta_given = False and a probability
\* vector of length dim+1 matches eta_sampled = A_k * P[1:], the first
\* order_idx[k] entries of eta_from_p(P); with eta_given = True it matches
\* the supplied vector of length order_idx[k].
C5_EtaSampled ==
    \A i \in 1..Len(hist) :
        LET e == hist[i]
        IN  (e.op = "solve" /\ FullMatrix) =>
              /\ (~e.eta_given /\ Len(e.arg) = self.dim + 1) =>
                    e.eta = SubSeq(eta_from_p(self, e.arg).val, 1,
                                   self.order_idx[e.k + 1])
              /\ (e.eta_given /\ Len(e.arg) = self.order_idx[e.k + 1]) =>
                    e.eta = e.arg

\* C6: on an instance holding a matrix, for every vector P of length dim+1,
\* eta_from_p(P) has one entry per row of A and entry r is the sum of P[s]
\* over the states s in 1..dim agreeing with row r's positions and symbols
\* (each state once, P[0] never).
C6_EtaIsMarginalSum ==
    \A i \in 1..Len(hist) :
        LET e == hist[i]
        IN  (e.op = "eta_from_p" /\ Built /\ Len(e.arg) = self.dim + 1) =>
              /\ e.tag = "ok"
              /\ Len(e.val) = Len(self.A)
              /\ \A r \in 1..Len(self.A) :
                    LET ss == SortedSeq({x \in 1..self.dim :
                                  Agrees(x, ctor.labels[r], self.m, self.n)})
                    IN  e.val[r] = RSum([t \in 1..Len(ss) |-> e.arg[ss[t] + 1]])

\* eta_from_p has returned the marginals of a non-uniform P on the full
\* matrix for n = 3, m = 2
C6_Witness ==
    /\ FullMatrix
    /\ self.n = 3 /\ self.m = 2
    /\ Len(hist) = 1
    /\ hist[1].op = "eta_from_p"
    /\ hist[1].tag = "ok"
    /\ hist[1].arg[1] # hist[1].arg[2]
    /\ Len(hist[1].val) = 7

\* C7 (as claimed): on every instance whose constructor loaded or generated
\* the matrix, B is defined and equals the transpose of A, and theta_from_p
\* of a strictly positive P returns theta with
\* B * theta = log(P[1:]) - log(P[0]).
C7_ThetaFromPSolvesLinearSystem ==
    /\ Built => /\ "B" \in self.attrs
                /\ self.B = transpose(self.A, self.Ashape[2])
    /\ \A i \in 1..Len(hist) :
          LET e == hist[i]
          IN  (e.op = "theta_from_p" /\ FullMatrix
               /\ Len(e.arg) = self.dim + 1) =>
                /\ e.tag = "ok"
                /\ expATtheta(self.A, e.val, self.dim)
                     = [c \in 1..self.dim |-> RDiv(e.arg[c + 1], e.arg[1])]

\* C8 (as claimed): on the full matrix theta_from_p(p_from_theta(theta))
\* = theta for every theta of length dim, and
\* p_from_theta(theta_from_p(P)) = P for every strictly positive P.
C8_RoundTrip ==
    \A i \in 1..Len(hist) :
        LET e == hist[i]
        IN  /\ (FullMatrix /\ e.op = "theta_from_p" /\ e.src = "chain"
                /\ hist[i - 1].op = "p_from_theta") =>
                  /\ e.tag = "ok"
                  /\ e.val = hist[i - 1].arg
            /\ (FullMatrix /\ e.op = "theta_from_p" /\ e.src = "fresh"
                /\ Len(e.arg) = self.dim + 1) =>
                  /\ e.tag = "ok"
                  /\ p_from_theta(self, e.val).val = e.arg

\* C9 (as claimed): for theta_true zero above order k, P =
\* p_from_theta(theta_true) and eta = eta_from_p(P): eta is defined, and
\* when solve(eta, k, eta_given=True) ends on theta_true the residual is
\* zero and the distribution returned equals P; for n = 2, m = 2, k = 1
\* and eta = [0.5, 0.5] the root is theta = 0 and the result is uniform
\* over the 4 joint states.
C9_Recovery ==
    /\ \A i \in 1..Len(hist) :
          LET e == hist[i]
          IN  (FullMatrix /\ e.op = "eta_from_p" /\ e.src = "chain"
               /\ hist[i - 1].op = "p_from_theta") =>
                /\ e.tag = "ok"
                /\ (i < Len(hist) /\ hist[i + 1].op = "solve"
                    /\ hist[i + 1].eta_given
                    /\ hist[i - 1].arg
                         = self.optout.x \o
                           [j \in 1..(self.dim - Len(self.optout.x)) |-> ROne])
                     => /\ \A j \in 1..Len(self.optout.fvec) :
                              self.optout.fvec[j] = RZero
                        /\ hist[i + 1].val = hist[i - 1].val
    /\ (/\ FullMatrix /\ self.n = 2 /\ self.m = 2
        /\ Len(hist) = 1 /\ hist[1].op = "solve" /\ hist[1].eta_given
        /\ hist[1].k = 1 /\ hist[1].arg = <<<<1, 2>>, <<1, 2>>>>
        /\ self.optout.x = <<ROne, ROne>>)
         => /\ self.optout.fvec = <<RZero, RZero>>
            /\ self.optout.ier = 1
            /\ hist[1].val = [j \in 1..4 |-> <<1, 4>>]

\* C11: the matrix generated for order k is the first order_idx[k] rows of
\* the matrix generated for every order k' in k..n, its rows lying in blocks
\* of ascending interaction order (block o = rows order_idx[o-1] ..
\* order_idx[o]-1); solve(., k) works on rows 0 .. order_idx[k]-1 of the
\* instance matrix (eta_sampled and the solution have order_idx[k]
\* entries), and after any sequence of solve calls A and order_idx are
\* still the ones the constructor generated or loaded.
C11_PrefixSlice ==
    /\ Generated =>
          /\ \A k2 \in self.k..self.n :
                self.A = SubSeq(GenTable[self.n][self.m][k2].A, 1,
                                self.order_idx[self.k + 1])
          /\ \A o \in 1..self.k :
                \A r \in (self.order_idx[o] + 1)..self.order_idx[o + 1] :
                    Len(ctor.labels[r].pos) = o
    /\ Built =>
          /\ self.filename \in DOMAIN files
          /\ self.A = files[self.filename].A
          /\ self.order_idx = squeeze(files[self.filename].order_idx)
    /\ \A i \in 1..Len(hist) :
          LET e == hist[i]
              l == self.order_idx[e.k + 1]
          IN  (e.op = "solve" /\ Built /\ l <= Len(self.A)) =>
                /\ (~e.eta_given /\ Len(e.arg) = self.Ashape[2]) =>
                      e.eta = matvec(SubSeq(self.A, 1, l), e.arg)
                /\ (e.tag = "ok" /\ i = Len(hist)) =>
                      /\ Len(self.optout.x) = l
                      /\ Len(self.optout.fvec) = l

\* two solve calls of different order have returned on a generated
\* instance with n = 3
C11_Witness ==
    /\ Generated /\ self.n = 3 /\ self.k = 3
    /\ Len(hist) = 2
    /\ hist[1].op = "solve" /\ hist[1].tag = "ok" /\ hist[1].k = 1
    /\ ~hist[1].eta_given
    /\ hist[2].op = "solve" /\ hist[2].tag = "ok" /\ hist[2].k = 2
    /\ Len(hist[1].eta) = self.order_idx[2]
    /\ Len(self.optout.x) = self.order_idx[3]

\* a step in which the constructor ran: it leaves either no call history
\* or the record of its exception
CtorStep ==
    /\ hist' # hist \/ self' # self \/ ctor' # ctor \/ files' # files
         \/ dir_exists' # dir_exists
    /\ IF hist' = <<>> THEN TRUE ELSE hist'[1].op = "__init__"

CtorRaised(e) == (hist' # <<>>) /\ (hist'[1].op = "__init__") /\ (hist'[1].tag = e)

\* C12 (as claimed): whenever the constructor is called (with a filename
\* prefix) and no artifact exists for (n, m) at a storage location that is
\* available, it generates the matrix, persists it, and returns an
\* instance holding A and order_idx on which theta_from_p can be used.
C12_MissGeneratesAndPersists ==
    [][(/\ CtorStep
        /\ FileName("a_", cfg.n, cfg.m) \notin DOMAIN files
        /\ ~CtorRaised("TypeError")
        /\ ~CtorRaised("OSError"))
       => /\ ctor'.how = "generated"
          /\ FileName("a_", cfg.n, cfg.m) \in DOMAIN files'
          /\ {"A", "order_idx"} \subseteq self'.attrs
          /\ "B" \in self'.attrs]_vars

\* the artifact of (n, m) is in the storage directory
Stored == FileName("a_", cfg.n, cfg.m) \in DOMAIN files
TheFile == files[FileName("a_", cfg.n, cfg.m)]

\* C13: once a generation has completed (the artifact is stored), the
\* artifact is never written again, and every later constructor call for
\* the same (n, m) and location loads it: the instance's A (entries and
\* row order) and order_idx are the generated ones.
C13_GenerateOnceThenLoad ==
    /\ []((ValidNM /\ Stored) =>
            \E kg \in 1..cfg.n :
                /\ TheFile.A = GenTable[cfg.n][cfg.m][kg].A
                /\ TheFile.labels = GenTable[cfg.n][cfg.m][kg].labels
                /\ TheFile.order_idx = <<GenTable[cfg.n][cfg.m][kg].order_idx>>)
    /\ [][(Stored => files' = files)
          /\ ((CtorStep /\ Stored /\ ~CtorRaised("TypeError")) =>
                /\ ctor'.how = "loaded"
                /\ self'.A = TheFile.A
                /\ ctor'.labels = TheFile.labels
                /\ self'.order_idx
                     = GenTable[cfg.n][cfg.m][self'.k].order_idx)]_vars

\* a matrix generated for order 2 of n = 3 has been loaded by a later
\* instance of order 3
C13_Witness ==
    /\ ctor.how = "loaded"
    /\ self.n = 3 /\ self.m = 2 /\ self.k = 3
    /\ Stored
    /\ self.A = GenTable[3][2][2].A
    /\ Len(self.A) = 6
    /\ self.order_idx = <<0, 3, 6, 7, 8>>

\* C14 (as claimed): the constructor completes from an existing artifact
\* only if the loaded matrix has dim columns, order_idx has n+2 entries
\* and the matrix has the order_idx[k] rows the instance's order k needs;
\* otherwise it fails instead of returning the instance.
C14_LoadValidatesDimensions ==
    (ctor.how = "loaded") =>
        /\ self.Ashape[2] = self.dim
        /\ Len(self.order_idx) = self.n + 2
        /\ self.Ashape[1] >= self.order_idx[self.k + 1]

\* the artifact names of all (n, m) up to MaxKey
KeyTable == [n \in 1..MaxKey |-> [m \in 2..MaxKey |-> FileName("a_", n, m)]]

KeyInjective ==
    \A n1 \in 1..MaxKey, n2 \in 1..MaxKey, m1 \in 2..MaxKey, m2 \in 2..MaxKey :
        (KeyTable[n1][m1] = KeyTable[n2][m2]) => (n1 = n2 /\ m1 = m2)

\* C15: the artifact an instance resolves to is named by the prefix, n and
\* m alone, whatever its order k (and it is the only artifact its
\* constructions touch), and different pairs (n, m) have different names.
C15_KeyIsPrefixNM ==
    /\ HasObj =>
          /\ self.filename = FileName("a_", self.n, self.m)
          /\ \A n2 \in 1..MaxKey, m2 \in 2..MaxKey :
                (KeyTable[n2][m2] = self.filename)
                    => (n2 = self.n /\ m2 = self.m)
    /\ DOMAIN files \subseteq {FileName("a_", cfg.n, cfg.m)}
    /\ KeyInjective

\* an instance of order 1 has resolved to the artifact an instance of
\* order 3 generated
C15_Witness ==
    /\ ctor.how = "loaded"
    /\ self.n = 3 /\ self.m = 2 /\ self.k = 1
    /\ self.filename = <<"a_", "n", "3", "m", "2">>
    /\ self.filename \in DOMAIN files
    /\ Len(self.A) = 7

\* C16 (as claimed): a constructor call that goes on to look up, read or
\* write the artifact leaves the storage directory existing (package data
\* directory or data/ of the working directory alike), creating it when
\* absent; otherwise the error of the failed creation reaches the caller.
C16_StorageDirectoryCreated ==
    [][(CtorStep /\ ~CtorRaised("TypeError"))
         => (dir_exists' \/ CtorRaised("OSError"))]_vars

\* C17 (as claimed): with several processes constructing concurrently for
\* the same (n, m) and location, once a process has finished persisting
\* the artifact no process opens it for writing again, and no process
\* loads the artifact while it is only partially written.
C17_WriteOnceNoPartialLoad ==
    /\ [][\A p \in Procs :
            (conc.persisted /\ conc.pc[p] = "savemat")
                => conc'.pc[p] # "writing"]_vars
    /\ [](\A p \in Procs : conc.pc[p] # "loaded_partial")

\* C18 (as claimed): a construction with filename=None raises nothing: it
\* generates the matrix without looking up, reading or writing a file and
\* completes with A and order_idx set.
C18_FilenameNoneGenerates ==
    \A i \in 1..Len(hist) :
        (hist[i].op = "__init__" /\ hist[i].arg = <<"None">>)
            => hist[i].tag = "ok"

\* C19 (as claimed): a constructor call with n < 1 or m < 2 fails with a
\* parameter error before anything else happens: no directory is created,
\* no file is written and no instance is returned.
C19_ParametersValidated ==
    [][(CtorStep /\ ~ValidNM /\ ~CtorRaised("TypeError"))
         => /\ CtorRaised("ValueError")
            /\ dir_exists' = dir_exists
            /\ files' = files
            /\ ctor' = ctor]_vars

\* C20 (as claimed): solve (eta_given = False), eta_from_p and theta_from_p
\* return no result for a vector whose length is not dim+1 or whose
\* entries do not sum to 1, and solve with eta_given = True returns none
\* for an eta vector whose length is not order_idx[k].
C20_InputsValidated ==
    \A i \in 1..Len(hist) :
        LET e == hist[i]
        IN  /\ (/\ Built
                /\ e.op \in {"solve", "eta_from_p", "theta_from_p"}
                /\ ~e.eta_given
                /\ (Len(e.arg) # self.dim + 1 \/ RSum(e.arg) # ROne))
                  => e.tag # "ok"
            /\ (/\ Built
                /\ e.op = "solve" /\ e.eta_given
                /\ Len(e.arg) # self.order_idx[e.k + 1])
                  => e.tag # "ok"

\* the solve calls of the history in which fsolve returned
RanSolves == {i \in 1..Len(hist) : hist[i].op = "solve" /\ hist[i].diag # NoOptout}

C28_ThetaPadded ==
    \A i \in 1..Len(hist) :
        LET e == hist[i]
            l == self.order_idx[e.k + 1]
        IN  (e.op = "solve" /\ FullMatrix) =>
              /\ e.x0 = [j \in 1..l |-> "-0.01"]
              /\ (i \in RanSolves) =>
                    /\ Len(e.theta) = self.dim
                    /\ Len(e.theta) = Len(self.A)
                    /\ SubSeq(e.theta, 1, l) = e.diag.x
                    /\ Len(e.diag.x) = l
                    /\ \A j \in (l + 1)..self.dim : e.theta[j] = ROne

\* solve with k = 1 on the full matrix of n = 3, m = 2 has passed a theta
\* of 3 fitted entries followed by 4 zeros
C28_Witness ==
    /\ FullMatrix /\ self.n = 3 /\ self.m = 2
    /\ Len(hist) = 1 /\ RanSolves = {1}
    /\ hist[1].k = 1
    /\ Len(hist[1].x0) = 3
    /\ hist[1].diag.x # <<ROne, ROne, ROne>>
    /\ SubSeq(hist[1].theta, 4, 7) = <<ROne, ROne, ROne, ROne>>
    /\ Len(hist[1].theta) = 7

\* a < b in the lexicographic order of integer sequences of equal length
LexLess(a, b) ==
    \E i \in 1..Len(a) :
        /\ a[i] < b[i]
        /\ \A j \in 1..(i - 1) : a[j] = b[j]

\* (symbol, position) of each variable of a row in turn
Interleave(lab) ==
    [i \in 1..(2 * Len(lab.pos)) |->
        IF i % 2 = 1 THEN lab.alpha[(i + 1) \div 2] ELSE lab.pos[i \div 2]]

\* the rows of order block o (1-based row numbers)
Block(o) == (self.order_idx[o] + 1)..self.order_idx[o + 1]

\* every row of block o is a pair (o positions in increasing order,
\* symbols in 1..m-1) and there are C(n,o) (m-1)^o rows, as many as pairs:
\* the rows stand one-to-one for the pairs when no two rows are the same
\* pair, which a strict order of consecutive rows gives
BlockOfPairs(o) ==
    /\ \A r \in Block(o) :
          LET lab == ctor.labels[r]
          IN  /\ Len(lab.pos) = o /\ Len(lab.alpha) = o
              /\ \A i \in 1..o : /\ lab.pos[i] \in 0..(self.n - 1)
                                  /\ lab.alpha[i] \in 1..(self.m - 1)
              /\ \A i \in 1..(o - 1) : lab.pos[i] < lab.pos[i + 1]
    /\ Cardinality(Block(o)) = Binomial(self.n, o) * Pow(self.m - 1, o)

\* C26 (as claimed): within each order block the rows stand one-to-one for
\* the pairs (variable subset, symbol assignment) and appear in
\* lexicographic order of (subset, assignment), the subset being the
\* primary key.
C26_RowsLexicographicBySubset ==
    Generated =>
        \A o \in 1..self.k :
            /\ BlockOfPairs(o)
            /\ \A r \in Block(o) :
                  (r + 1 \in Block(o)) =>
                      LexLess(ctor.labels[r].pos \o ctor.labels[r].alpha,
                              ctor.labels[r + 1].pos \o ctor.labels[r + 1].alpha)

\* C26 (amended): within each order block the rows stand one-to-one for the
\* pairs (variable subset, symbol assignment) and appear in lexicographic
\* order of the sequence (symbol of the 1st variable, position of the 1st
\* variable, symbol of the 2nd, position of the 2nd, ...): the symbol of a
\* variable is a more significant key than its position.
C26_RowsInLoopOrder ==
    Generated =>
        \A o \in 1..self.k :
            /\ BlockOfPairs(o)
            /\ \A r \in Block(o) :
                  (r + 1 \in Block(o)) =>
                      LexLess(Interleave(ctor.labels[r]),
                              Interleave(ctor.labels[r + 1]))

\* n = 2, m = 3: the order-1 block lists both positions with symbol 1
\* before both positions with symbol 2
C26_Witness ==
    /\ Generated /\ self.n = 2 /\ self.m = 3 /\ self.k = 2
    /\ SubSeq(ctor.labels, 1, 4)
         = << [pos |-> <<0>>, alpha |-> <<1>>], [pos |-> <<1>>, alpha |-> <<1>>],
              [pos |-> <<0>>, alpha |-> <<2>>], [pos |-> <<1>>, alpha |-> <<2>>] >>
    /\ Len(ctor.labels) = 8

\* number of stored ones of A: its (row, column) entries
Nnz(A) == Cardinality(UNION {{<<r, c>> : c \in A[r]} : r \in 1..Len(A)})

RECURSIVE NnzUpTo(_, _, _)
NnzUpTo(n, m, o) ==
    IF o <= 0 THEN 0
    ELSE Binomial(n, o) * Pow(m - 1, o) * Pow(m, n - o) + NnzUpTo(n, m, o - 1)

\* C27: in a generated matrix every row of order o has exactly m^(n-o) ones
\* (one when o = n), all in columns 0..dim-1, and the number of ones of the
\* whole order-k matrix is the sum over o = 1..k of
\* C(n,o)*(m-1)^o*m^(n-o), the value _calculate_orders stores as Annz.
C27_RowWeightAndNnz ==
    Generated =>
        /\ \A o \in 1..self.k : \A r \in Block(o) :
              /\ Cardinality(self.A[r]) = Pow(self.m, self.n - o)
              /\ (o = self.n) => (Cardinality(self.A[r]) = 1)
              /\ self.A[r] \subseteq 0..(self.dim - 1)
        /\ Nnz(self.A) = NnzUpTo(self.n, self.m, self.k)
        /\ self.Annz = Nnz(self.A)

\* n = 3, m = 3, k = 3: rows of weight 9, 3 and 1, 54 + 36 + 8 = 98 ones
C27_Witness ==
    /\ Generated /\ self.n = 3 /\ self.m = 3 /\ self.k = 3
    /\ Cardinality(self.A[1]) = 9
    /\ Cardinality(self.A[7]) = 3
    /\ Cardinality(self.A[Len(self.A)]) = 1
    /\ self.Annz = 98

\* every value of x lies in lo..hi
InRange(x, lo, hi) == \A i \in 1..Len(x) : (lo <= x[i]) /\ (x[i] <= hi)

\* the conversions made with an instance of alphabet size m >= 2
SignCalls == {j \in 1..Len(util.calls) : util.calls[j].m >= 2}

\* C22: for every m >= 2, un2si followed by si2un restores an array with
\* all values in [0, m-1], si2un followed by un2si restores an array with
\* all values in [-l, l], and neither step of such a round trip raises
\* (stated of the arrays that hold at least one value).
C22_RoundTripRestores ==
    \A j \in SignCalls :
        LET c     == util.calls[j]
            first == util.calls[1]
            valid == /\ Len(util.arg) > 0
                     /\ IF first.fn = "un2si" THEN InRange(util.arg, 0, c.m - 1)
                        ELSE InRange(util.arg, -c.l, c.l)
        IN  (valid /\ (j = 1 \/ (j = 2 /\ c.fn # first.fn))) =>
                /\ c.tag = "ok"
                /\ (j = 2) => (c.after = util.arg)

\* C23: si2un raises exactly when some value lies outside [-l, l], un2si
\* exactly when some value lies outside [0, m-1], and a call that raises
\* leaves the array as it was passed in.
C23_RaisesIffOutOfRange ==
    \A j \in SignCalls :
        LET c == util.calls[j]
        IN  /\ (c.fn = "si2un") =>
                  ((c.tag = "ValueError") <=> ~InRange(c.before, -c.l, c.l))
            /\ (c.fn = "un2si") =>
                  ((c.tag = "ValueError") <=> ~InRange(c.before, 0, c.m - 1))
            /\ (c.tag # "ok") => (c.after = c.before)

\* C29: on valid input si2un adds m to exactly the negative entries and its
\* result lies in [0, m-1]; un2si subtracts m from exactly the entries
\* greater than l and its result lies in [-l, l], for every m >= 2
\* (stated of the arrays that hold at least one value).
C29_ShiftsExactlyAndLandsInRange ==
    \A j \in SignCalls :
        LET c == util.calls[j]
            n == Len(c.before)
        IN  /\ (c.fn = "si2un" /\ n > 0 /\ InRange(c.before, -c.l, c.l)) =>
                  /\ c.tag = "ok"
                  /\ Len(c.after) = n
                  /\ \A i \in 1..n :
                        c.after[i] = IF c.before[i] < 0 THEN c.before[i] + c.m
                                     ELSE c.before[i]
                  /\ InRange(c.after, 0, c.m - 1)
            /\ (c.fn = "un2si" /\ n > 0 /\ InRange(c.before, 0, c.m - 1)) =>
                  /\ c.tag = "ok"
                  /\ Len(c.after) = n
                  /\ \A i \in 1..n :
                        c.after[i] = IF c.before[i] > c.l THEN c.before[i] - c.m
                                     ELSE c.before[i]
                  /\ InRange(c.after, -c.l, c.l)

\* row t of a two-dimensional array is the word of the value v
IsWordOf(row, v, b, d) ==
    /\ Len(row) = d
    /\ \A j \in 1..d : row[j] = Digit(v, b, d, j - 1)

\* C24: dec2base(x, b, d) is, for each 0 <= x < b^d, the length-d base-b
\* word of x with the most significant digit first (1 is the word
\* (0,...,0,1)); base2dec(dec2base(x, b, d), b) = x;
\* dec2base(base2dec(w, b), b, d) = w for every array w of length-d words;
\* and dec2base raises ValueError when x is not a column vector.
C24_WordsRoundTripAndColumnCheck ==
    \A j \in 1..Len(util.calls) :
        LET c   == util.calls[j]
            a   == util.arg
            col == (a.x.nd = 2) /\ (a.x.cols = 1)
        IN  /\ (a.kind = "dec" /\ j = 1 /\ col) =>
                  /\ c.tag = "ok"
                  /\ shape(c.val) = <<Len(a.x.v), a.d>>
                  /\ \A t \in 1..Len(a.x.v) :
                        /\ IsWordOf(c.val.v[t], a.x.v[t][1], a.b, a.d)
                        /\ (a.x.v[t][1] = 1) =>
                              (c.val.v[t] = [i \in 1..a.d |-> IF i = a.d THEN 1 ELSE 0])
            /\ (a.kind = "dec" /\ j = 2 /\ col) =>
                  /\ c.tag = "ok"
                  /\ flat(c.val) = flat(a.x)
            /\ (a.kind = "word" /\ j = 2 /\ a.x.nd = 2) =>
                  /\ c.tag = "ok"
                  /\ c.val = a.x
            /\ (a.kind = "dec" /\ j = 1 /\ ~col) => (c.tag = "ValueError")

\* C25: for a non-empty x with all values in 0..n-1, prob(x, n, 'naive') of
\* utils.py and of pyentropy.py return n entries, entry i the number of
\* occurrences of i in x divided by len(x), which sum to 1.
C25_ProbIsRelativeFrequency ==
    \A j \in 1..Len(util.calls) :
        LET c == util.calls[j]
            x == flat(util.arg.x)
            n == util.arg.d
        IN  (c.fn \in {"utils.prob", "pyentropy.prob"}) =>
                /\ c.tag = "ok"
                /\ Len(c.val) = n
                /\ \A i \in 1..n :
                      c.val[i] = Rat(Cardinality({q \in 1..Len(x) : x[q] = i - 1}),
                                     Len(x))
                /\ RSum(c.val) = ROne

====
